---- MODULE Spec2Model ----
(***************************************************************************)
(* A model of Apophenia's maximum-likelihood engine (apop_mle.c): the      *)
(* objective adapter negshell, the three optimizer drivers, the solve      *)
(* entry point apop_maximum_likelihood and apop_estimate_restart; the      *)
(* trajectory buffers and the covariance step, annealing's random source   *)
(* and proposal step annealing_step, the trace table, the parameter codec, *)
(* and apop_ml_imputation (apop_missing_data.c).                           *)
(*                                                                         *)
(* Numbers.  Parameters are in tenths (0.1 is 1, 1.0 is 10); tolerance and *)
(* step size are in thousandths (1e-3 is 1, 1.0 is 1000).  A double is an  *)
(* integer, or one of the three values NaN, PosInf, NegInf below, and the  *)
(* operators D... compute on them as IEEE arithmetic does.                 *)
(*                                                                         *)
(* The GSL minimizers and gsl_siman_solve are library code: what they      *)
(* answer (the next point, a step's status, a convergence test's result,   *)
(* an acceptance draw) is a nondeterministic choice in the actions.        *)
(***************************************************************************)
EXTENDS Integers, Sequences, FiniteSets, TLC

VARIABLES
    pc,         \* where the caller's thread is
    dist,       \* the apop_model passed to the solve
    ests,       \* the apop_params structs: "e" (the caller's) and "copy" (restart's clone)
    cur,        \* which struct info.params points to during a solve
    info,       \* the infostruct of the running solve
    s,          \* the minimizer's state and the driver's locals iter, status
    shell,      \* the last evaluation negshell made
    dshell,     \* the last evaluation dnegshell made
    rs,         \* apop_estimate_restart's arguments, locals and result
    traj,       \* the Trajectory buffers info points to: gradient_list, gradientp, gsize, gpsize
    static_r,   \* apop_annealing's static random source pointer r
    gsl_rng,    \* the random sources of the process and the streams their seeds give
    calls,      \* the annealing solves the process has completed
    data,       \* the dataset handed to apop_ml_imputation
    mask,       \* apop_ml_imputation's local mask (row, col, ct)
    trace,      \* apop_opts.mle_trace_path and the table of that name
    an,         \* annealing_step's arguments and locals
    codec,      \* a structured parameter, its flat form and what unpack rebuilds
    cov         \* produce_covariance_matrix's weights: gradientp, proportion, j, k

procVars == <<static_r, gsl_rng, calls>>
ioVars == <<data, mask, trace>>
unitVars == <<an, codec, cov>>

vars == <<pc, dist, ests, cur, info, s, shell, dshell, rs, traj, procVars, ioVars, unitVars>>

----------------------------------------------------------------------------
(* Doubles *)

NaN == 9999999
PosInf == 1000000
NegInf == -1000000

gsl_finite(x) == x # NaN /\ x # PosInf /\ x # NegInf

DNeg(x) ==
    IF x = NaN THEN NaN
    ELSE IF x = PosInf THEN NegInf
    ELSE IF x = NegInf THEN PosInf
    ELSE 0 - x

DAdd(x, y) ==
    IF x = NaN \/ y = NaN THEN NaN
    ELSE IF (x = PosInf /\ y = NegInf) \/ (x = NegInf /\ y = PosInf) THEN NaN
    ELSE IF x = PosInf \/ y = PosInf THEN PosInf
    ELSE IF x = NegInf \/ y = NegInf THEN NegInf
    ELSE x + y

\* x > y and x < y on doubles: false as soon as one side is NaN
DGt(x, y) == x # NaN /\ y # NaN /\ x > y
DLt(x, y) == x # NaN /\ y # NaN /\ x < y
DLe(x, y) == x # NaN /\ y # NaN /\ x <= y

Abs(x) == IF x < 0 THEN 0 - x ELSE x

\* log() on the values a density takes here (0 and the powers of two), in
\* base 2 so that it stays integral: log 0 is -inf, log of a negative or of NaN is NaN.
Log(x) ==
    IF x = NaN THEN NaN
    ELSE IF x = PosInf THEN PosInf
    ELSE IF x < 0 THEN NaN
    ELSE IF x = 0 THEN NegInf
    ELSE CHOOSE k \in 0..8 : 2^k = x

----------------------------------------------------------------------------
(* Parameter vectors.  The models below have a vector component of two    *)
(* parameters and no matrix component; the imputation model has one        *)
(* parameter for each missing cell of the dataset.                         *)

NoPt == <<>>
PVals == {0, 1, 10, 200000, NaN}
Points == {<<a, b>> : a \in PVals, b \in PVals}

\* the length of the flat parameter vector: vsize + msize1*msize2 of the
\* params' parameters, which are allocated with the model's vbase (the
\* imputation model's is mask.ct) and no matrix
betasize == IF dist = "impute" THEN mask.ct ELSE 2

\* gsl_vector_set_all(x, v) on an x of betasize entries
set_all(v) == [j \in 1..betasize |-> v]

\* the values tried for a missing cell
ImputeVals == {3, 7}

\* the points the library minimizers and the annealing walk are let to visit
Visited ==
    IF dist = "impute" THEN [1..mask.ct -> ImputeVals]
    ELSE {<<10, 1>>, <<0, 0>>, <<10, 10>>, <<200000, 1>>, <<1, NaN>>}

SanityBound == 100000

apop_vector_bounded(v, max) ==
    \A j \in 1..Len(v) : gsl_finite(v[j]) /\ v[j] <= max /\ v[j] >= 0 - max

----------------------------------------------------------------------------
(* The dataset of apop_ml_imputation: a matrix (no vector part), a row a   *)
(* sequence of cells, rows and columns counted from 0 as the code does.    *)

\* no dataset: x is the dataset as it stands, d0 as it was handed over
NoData == [x |-> <<>>, d0 |-> <<>>]
\* apop_ml_imputation_struct mask before find_missing fills it
NoMask == [row |-> <<>>, col |-> <<>>, ct |-> 0]

\* apop_data_get(d, i, j)
apop_data_get(d, i, j) == d[i + 1][j + 1]

\* addin(m, i, j)
addin(m, i, j) ==
    [row |-> Append(m.row, i), col |-> Append(m.col, j), ct |-> m.ct + 1]

RECURSIVE find_missing_from(_, _, _)
\* the two loops of find_missing from cell number k on (row k div size2,
\* column k mod size2)
find_missing_from(d, k, m) ==
    LET size1 == Len(d)
        size2 == Len(d[1])
        i == k \div size2
        j == k % size2
    IN  IF k >= size1 * size2 THEN m
        ELSE find_missing_from(d, k + 1,
                IF apop_data_get(d, i, j) = NaN THEN addin(m, i, j) ELSE m)

\* find_missing(d, &mask)
find_missing(d) == find_missing_from(d, 0, NoMask)

\* unpack(v, x, m): x with v's entries written to the cells m lists
unpack(v, x, m) ==
    [a \in 1..Len(x) |-> [b \in 1..Len(x[a]) |->
        LET hits == {n \in 1..m.ct : m.row[n] = a - 1 /\ m.col[n] = b - 1}
        IN  IF hits = {} THEN x[a][b]
            ELSE v[CHOOSE n \in hits : \A n2 \in hits : n2 <= n]]]

RECURSIVE SumSeq(_)
SumSeq(q) == IF Len(q) = 0 THEN 0 ELSE q[1] + SumSeq(Tail(q))

\* apop_multivariate_normal.log_likelihood(x, meanvar, NULL), for a meanvar
\* whose means are all 0.4: highest with every cell at the mean
multivariate_normal_log_likelihood(x) ==
    IF \E a \in 1..Len(x) : \E b \in 1..Len(x[a]) : x[a][b] = NaN THEN NaN
    ELSE 0 - SumSeq([a \in 1..Len(x) |-> SumSeq([b \in 1..Len(x[a]) |-> Abs(x[a][b] - 4)])])

----------------------------------------------------------------------------
(* Models: the capability set {log_likelihood, p, constraint}.  "impute"   *)
(* is apop_ml_imputation_model, which has a log_likelihood only.           *)

Models == {"norm", "dens", "cnorm"}

has_log_likelihood(m) == m \in {"norm", "cnorm", "impute"}
has_p(m) == m = "dens"
has_constraint(m) == m = "cnorm"

PtNaN(x) == \E j \in 1..Len(x) : x[j] = NaN

\* the mask the imputation model's ll reads through ep->model_params: when
\* that is not the mask, what it reads is not one (taken here as listing no cell)
ll_mask == IF ests[cur].model_params = "mask" THEN mask ELSE NoMask

\* the imputation model's ll(d, x, ep): unpack, then the likelihood of the dataset
ll(v) == multivariate_normal_log_likelihood(unpack(v, data.x, ll_mask))

\* a concave log-likelihood with its maximum (0) at (1.0, 0.1)
log_likelihood(m, x) ==
    IF m = "impute" THEN ll(x)
    ELSE IF PtNaN(x) THEN NaN ELSE 0 - (Abs(x[1] - 10) + Abs(x[2] - 1))

\* a density with its maximum (8) at (1.0, 0.1), underflowing to 0 far away
p(m, x) ==
    IF PtNaN(x) THEN NaN
    ELSE IF Abs(x[1] - 10) > 10 \/ Abs(x[2] - 1) > 10 THEN 0
    ELSE IF x = <<10, 1>> THEN 8
    ELSE IF x = <<10, 0>> \/ x = <<10, 10>> THEN 4
    ELSE IF x[1] = 10 \/ x[2] = 1 THEN 2
    ELSE 1

\* the constraint x[1] <= 0.1: the penalty is the distance to the feasible
\* region, the corrected point is the projection on it
constraint_penalty(m, x) ==
    IF x[1] # NaN /\ x[1] > 1 THEN x[1] - 1 ELSE 0

constraint_corrected(m, x) ==
    IF x[1] # NaN /\ x[1] > 1 THEN <<1, x[2]>> ELSE x

\* what a foreign struct read as a mask may list: some one cell
GarbageMasks ==
    {[row |-> <<i>>, col |-> <<j>>, ct |-> 1] : i \in 0..1, j \in 0..1}

\* the dataset after the model's likelihood was evaluated at v: the
\* imputation model's ll writes v into the cells the mask lists; through a
\* model_params that is not the mask it writes nowhere or anywhere
ll_effect(v) ==
    IF dist # "impute" THEN {data}
    ELSE IF ests[cur].model_params = "mask"
    THEN {[data EXCEPT !.x = unpack(v, data.x, mask)]}
    ELSE {data} \cup {[data EXCEPT !.x = unpack(v, data.x, g)] : g \in GarbageMasks}

\* where the first evaluation of a solve leaves the thread: on to next, or
\* killed when ll dereferences a model_params that is not the mask
first_eval_pc(next) ==
    IF dist = "impute" /\ ests[cur].model_params # "mask"
    THEN {next, "SIGSEGV"}
    ELSE {next}

----------------------------------------------------------------------------
(* The objective adapter *)

\* insert_path_into_db(beta, out): the row inserted (%g prints the six
\* significant digits every number here has)
insert_path_into_db(beta, out) ==
    IF Len(beta) = 1 THEN <<beta[1], out>> ELSE <<beta[1], beta[2], out>>

\* if (strlen(apop_opts.mle_trace_path)) insert_path_into_db(betain, -out)
negshell_trace(tr, betain, out) ==
    [tr EXCEPT
        !.evals = tr.evals + 1,
        !.rows = IF tr.path # ""
                 THEN Append(tr.rows, insert_path_into_db(betain, DNeg(out)))
                 ELSE tr.rows]

\* f = log_likelihood ? log_likelihood : p
shell_f(m, x) == IF has_log_likelihood(m) THEN log_likelihood(m, x) ELSE p(m, x)

NoShell ==
    [called |-> FALSE, betain |-> NoPt, use_constraint |-> 0,
     constraint_called |-> FALSE, penalty |-> 0, out |-> 0]

negshell_no_penalty_added(m, use_constraint, betain) ==
    LET checks == use_constraint # 0 /\ has_constraint(m)
        penalty == IF checks THEN constraint_penalty(m, betain) ELSE 0
        returned_beta == IF checks THEN constraint_corrected(m, betain) ELSE betain
        out == IF penalty = 0 THEN DNeg(shell_f(m, betain))
               ELSE IF penalty > 0 THEN DNeg(shell_f(m, returned_beta))
               ELSE 0
    IN  [called |-> TRUE, betain |-> betain, use_constraint |-> use_constraint,
         constraint_called |-> checks, penalty |-> penalty, out |-> out]

negshell(m, use_constraint, betain) ==
    LET beta == betain
        checks == use_constraint # 0 /\ has_constraint(m)
        penalty == IF checks THEN constraint_penalty(m, beta) ELSE 0
        returned_beta == IF checks THEN constraint_corrected(m, beta) ELSE beta
        out0 == 0
        out1 == IF checks /\ penalty > 0
                THEN DAdd(DNeg(shell_f(m, returned_beta)), penalty)
                ELSE out0
        out == IF penalty = 0 THEN DNeg(shell_f(m, beta)) ELSE out1
    IN  [called |-> TRUE, betain |-> betain, use_constraint |-> use_constraint,
         constraint_called |-> checks, penalty |-> penalty, out |-> out]

----------------------------------------------------------------------------
(* The derivative provider *)

NoDShell == [called |-> FALSE, betain |-> NoPt, constraint_called |-> FALSE, useme |-> NoPt]

\* dnegshell(betain, in, g): useme is the point the score, or the numerical
\* gradient of the likelihood, is taken at
dnegshell(m, betain) ==
    LET beta == betain
        binds == has_constraint(m) /\ constraint_penalty(m, beta) # 0
        useme == IF binds THEN constraint_corrected(m, beta) ELSE beta
    IN  [called |-> TRUE, betain |-> betain, constraint_called |-> has_constraint(m),
         useme |-> useme]

\* fdf_shell: *f = negshell(beta, i); dnegshell(beta, i, df)
fdf_shell(m, i, beta) ==
    [f |-> negshell(m, i.use_constraint, beta), df |-> dnegshell(m, beta)]

----------------------------------------------------------------------------
(* The structs *)

\* GSL's return codes
GSL_SUCCESS == 0
GSL_CONTINUE == -2
GSL_ENOPROG == 27

\* the drivers' iteration caps (set in a header), scaled down
MAX_ITERATIONS == 2
MAX_ITERATIONS_w_d == 2
\* the number of proposals gsl_siman_solve makes (n_tries, iters_fixed_T and
\* the cooling schedule decide it)
MaxTries == 2

\* method_params when it is not an apop_mle_params (method_name is not "MLE")
NoMP ==
    [starting_pt |-> NoPt, tolerance |-> 0, method |-> 0, step_size |-> 0,
     want_cov |-> 0, rng |-> "NULL"]

\* an apop_params that is not allocated (a NULL pointer, or freed)
NoEst ==
    [live |-> FALSE, method_name |-> "", method_params |-> NoMP,
     model_params |-> "NULL", parameters |-> NoPt, covariance |-> "NULL",
     log_likelihood |-> 0, status |-> 0]

\* the method_params apop_mle_params_set_default installs
DefaultMP ==
    [starting_pt |-> NoPt, tolerance |-> 0, method |-> 1, step_size |-> 1000,
     want_cov |-> 1, rng |-> "NULL"]

apop_mle_params_set_default(parent) ==
    [parent EXCEPT !.method_params = DefaultMP, !.method_name = "MLE"]

\* apop_params_alloc leaves status as the allocator did: st
apop_mle_params_alloc(st) ==
    apop_mle_params_set_default(
        [live |-> TRUE, method_name |-> "", method_params |-> NoMP,
         model_params |-> "NULL", parameters |-> NoPt, covariance |-> "NULL",
         log_likelihood |-> 0, status |-> st])

NoInfo ==
    [use_constraint |-> 1, driver |-> "none", minimizer |-> "none",
     beta |-> NoPt, arg_kind |-> "none", arg_method |-> 0, arg_status |-> 0]

NoS ==
    [x |-> NoPt, start |-> NoPt, best |-> NoPt, E |-> 0, best_E |-> 0, iter |-> 0,
     status |-> 0, step |-> "none", test |-> "none", r |-> "NULL",
     r_at |-> [seed |-> 0, pos |-> 0]]

\* The random sources.  "A" and "B" are the caller's, both seeded alike;
\* "D" is the one gsl_rng_alloc(gsl_rng_env_setup()) makes, with GSL's
\* default seed.  A source is at a position of the stream its seed gives; a
\* stream is known as far as some source has read it.
NoRng ==
    [src |-> [n \in {"A", "B", "D"} |->
                [seed |-> IF n = "D" THEN 0 ELSE 1, pos |-> 0, made |-> n # "D"]],
     tape |-> [sd \in {0, 1} |-> <<>>]]
NoTrace == [path |-> "", rows |-> <<>>, evals |-> 0]
NoAn == [pc |-> "none"]
NoCodec == [pc |-> "none"]
NoCov == [pc |-> "none"]

NoRs ==
    [active |-> FALSE, new_method |-> 0, scale100 |-> 0, ret |-> "none",
     e0 |-> NoEst]

est == ests[cur]
mp == ests[cur].method_params

\* the buffers before apop_maximum_likelihood allocates them
NoTraj ==
    [allocated |-> FALSE, frees |-> 0, gsize |-> 0, gpsize |-> 0,
     gradientp |-> <<>>]

\* info.gradientp, info.gradient_list, info.gsize, info.gpsize as malloc'd
\* at the head of apop_maximum_likelihood
NewTraj == [NoTraj EXCEPT !.allocated = TRUE]


SetEst(r) == [ests EXCEPT ![cur] = r]

----------------------------------------------------------------------------
(* The Trajectory and the covariance *)

\* f is the objective value, a gradient of g_size entries comes with it
record_gradient_info(f, g_size, m, tj) ==
    IF ~gsl_finite(f) THEN tj
    ELSE [tj EXCEPT
            !.gsize = tj.gsize + g_size,
            !.gradientp = Append(tj.gradientp,
                    IF has_log_likelihood(m) THEN DNeg(f) ELSE DNeg(Log(f))),
            !.gpsize = tj.gpsize + 1]

cov_cleanup(tj) ==
    [tj EXCEPT !.allocated = FALSE, !.frees = tj.frees + 1]

\* "As you can see, this is a placeholder."
apop_numerical_covariance_matrix(e) == e

\* The outcomes of produce_covariance_matrix(e, i): the estimate, the
\* buffers and whether the call returned.  betasize = *gsize / *gpsize is a
\* division by zero on an empty Trajectory: the process is killed, or goes on
\* with a covariance made of whatever the quotient was.
produce_covariance_matrix(e, tj) ==
    IF e.method_params.want_cov = 0
    THEN {[est |-> e, traj |-> cov_cleanup(tj), pc |-> "returned"]}
    ELSE IF tj.gpsize = 0
    THEN {[est |-> e, traj |-> tj, pc |-> "SIGFPE"],
          [est |-> [e EXCEPT !.covariance = "garbage"], traj |-> cov_cleanup(tj),
           pc |-> "returned"]}
    ELSE {[est |-> [e EXCEPT !.covariance = "computed"], traj |-> cov_cleanup(tj),
           pc |-> "returned"]}

----------------------------------------------------------------------------
(* apop_maximum_likelihood *)

select_driver_roots_unbounded(method) ==
    IF method = 5 THEN "annealing"
    ELSE IF method = 0 THEN "no_d"
    ELSE IF method >= 10 THEN "find_roots"
    ELSE "w_d"

select_driver(method) ==
    IF method = 5 THEN "annealing"
    ELSE IF method = 0 THEN "no_d"
    ELSE IF method >= 10 /\ method <= 13 THEN "find_roots"
    ELSE "w_d"

ArgKind(params) ==
    IF ~params.live THEN "NULL"
    ELSE IF params.method_name # "MLE" THEN "notMLE"
    ELSE "MLE"

apop_maximum_likelihood ==
    /\ pc = "call"
    /\ \E st \in {0, 1} :
        LET params == ests[cur]
            resolved ==
                IF ~params.live THEN apop_mle_params_alloc(st)
                ELSE IF params.method_name # "MLE"
                     THEN apop_mle_params_set_default(params)
                ELSE params
        IN  /\ (params.live => st = 0)
            /\ ests' = SetEst(resolved)
            /\ info' = [NoInfo EXCEPT
                    !.use_constraint = 1,
                    !.driver = select_driver(resolved.method_params.method),
                    !.arg_kind = ArgKind(params),
                    !.arg_method = params.method_params.method,
                    !.arg_status = resolved.status]
            /\ pc' = select_driver(resolved.method_params.method)
    /\ s' = NoS
    /\ shell' = NoShell
    /\ dshell' = NoDShell
    /\ traj' = NewTraj
    /\ UNCHANGED <<dist, cur, rs, procVars, ioVars, unitVars>>

----------------------------------------------------------------------------
(* The simplex driver *)

apop_maximum_likelihood_no_d_set ==
    /\ pc = "no_d"
    /\ LET x == IF mp.starting_pt = NoPt THEN set_all(0) ELSE mp.starting_pt
       IN  /\ ests' = SetEst([est EXCEPT !.status = 1])
           /\ info' = [info EXCEPT !.minimizer = "nmsimplex"]
           /\ s' = [NoS EXCEPT !.x = x, !.start = x]
           /\ shell' = negshell(dist, info.use_constraint, x)
           /\ trace' = negshell_trace(trace, x, negshell(dist, info.use_constraint, x).out)
           /\ data' \in ll_effect(x)
    /\ pc' \in first_eval_pc("no_d_loop")
    /\ UNCHANGED <<dist, cur, dshell, rs, traj, procVars, mask, unitVars>>

\* after one pass of the do-while body: where the loop goes
no_d_next(status, iter) ==
    IF status = GSL_CONTINUE /\ iter < MAX_ITERATIONS THEN "no_d_loop" ELSE "no_d_end"

\* one pass: the step fails and the loop breaks
no_d_iterate_fails ==
    /\ pc = "no_d_loop"
    /\ s' = [s EXCEPT !.iter = s.iter + 1, !.status = GSL_ENOPROG,
                      !.step = "failed", !.test = "none"]
    /\ pc' = "no_d_end"
    /\ UNCHANGED <<dist, ests, cur, info, shell, dshell, rs, traj, procVars, ioVars, unitVars>>

\* one pass: the step moves the simplex, then the size test
no_d_iterate ==
    /\ pc = "no_d_loop"
    /\ \E x \in Visited, t \in {GSL_SUCCESS, GSL_CONTINUE} :
        /\ s' = [s EXCEPT !.iter = s.iter + 1, !.x = x, !.status = t,
                          !.step = "ok",
                          !.test = IF t = GSL_SUCCESS THEN "success" ELSE "continue"]
        /\ shell' = negshell(dist, info.use_constraint, x)
        /\ trace' = negshell_trace(trace, x, negshell(dist, info.use_constraint, x).out)
        /\ data' \in ll_effect(x)
        /\ pc' = no_d_next(t, s.iter + 1)
    /\ UNCHANGED <<dist, ests, cur, info, dshell, rs, traj, procVars, mask, unitVars>>

\* est->log_likelihood as the simplex driver computes it
no_d_log_likelihood(m, x) ==
    IF has_log_likelihood(m) THEN log_likelihood(m, x) ELSE p(m, x)

no_d_status_always_one(status, old) == 1

\* if (status == GSL_SUCCESS) est->status = 0
no_d_status(status, old) == IF status = GSL_SUCCESS THEN 0 ELSE old

apop_maximum_likelihood_no_d_end ==
    /\ pc = "no_d_end"
    /\ LET e == [est EXCEPT
                !.status = no_d_status(s.status, est.status),
                !.parameters = s.x,
                !.log_likelihood = no_d_log_likelihood(dist, s.x)]
       IN  ests' = SetEst(IF mp.want_cov # 0
                          THEN apop_numerical_covariance_matrix(e) ELSE e)
    /\ data' \in ll_effect(s.x)
    /\ pc' = "returned"
    /\ UNCHANGED <<dist, cur, info, s, shell, dshell, rs, traj, procVars, mask, trace, unitVars>>

----------------------------------------------------------------------------
(* The gradient driver *)

\* the minimizer allocated for mp->method
w_d_minimizer(method) ==
    IF method = 2 THEN "vector_bfgs"
    ELSE IF method = 3 THEN "conjugate_pr"
    ELSE "conjugate_fr"

apop_maximum_likelihood_w_d_set ==
    /\ pc = "w_d"
    /\ LET x == IF mp.starting_pt = NoPt THEN set_all(1) ELSE mp.starting_pt
       IN  /\ info' = [info EXCEPT !.minimizer = w_d_minimizer(mp.method)]
           /\ s' = [NoS EXCEPT !.x = x, !.start = x]
           /\ shell' = fdf_shell(dist, info, x).f
           /\ dshell' = fdf_shell(dist, info, x).df
           /\ trace' = negshell_trace(trace, x, negshell(dist, info.use_constraint, x).out)
           /\ data' \in ll_effect(x)
    /\ pc' \in first_eval_pc("w_d_loop")
    /\ UNCHANGED <<dist, ests, cur, rs, traj, procVars, mask, unitVars>>

\* the loop left after its first pass whatever the status
w_d_next_one_pass(status, iter) == "w_d_end"

w_d_next(status, iter) ==
    IF status = GSL_CONTINUE /\ iter < MAX_ITERATIONS_w_d THEN "w_d_loop" ELSE "w_d_end"

\* one pass: the step fails and the loop breaks, est->status not written
w_d_iterate_fails ==
    /\ pc = "w_d_loop"
    /\ s' = [s EXCEPT !.iter = s.iter + 1, !.status = GSL_ENOPROG,
                      !.step = "failed", !.test = "none"]
    /\ traj' = record_gradient_info(
                    negshell(dist, info.use_constraint, s.x).out, betasize, dist, traj)
    /\ pc' = "w_d_end"
    /\ UNCHANGED <<dist, ests, cur, info, shell, dshell, rs, procVars, ioVars, unitVars>>

\* one pass: the step moves x, then the gradient test
w_d_iterate ==
    /\ pc = "w_d_loop"
    /\ \E x \in Visited, t \in {GSL_SUCCESS, GSL_CONTINUE} :
        /\ s' = [s EXCEPT !.iter = s.iter + 1, !.x = x, !.status = t,
                          !.step = "ok",
                          !.test = IF t = GSL_SUCCESS THEN "success" ELSE "continue"]
        /\ shell' = fdf_shell(dist, info, x).f
        /\ dshell' = fdf_shell(dist, info, x).df
        /\ trace' = negshell_trace(trace, x, negshell(dist, info.use_constraint, x).out)
        /\ data' \in ll_effect(x)
        /\ traj' = record_gradient_info(
                        negshell(dist, info.use_constraint, x).out, betasize, dist, traj)
        /\ ests' = IF t = GSL_SUCCESS THEN SetEst([est EXCEPT !.status = 0]) ELSE ests
        /\ pc' = w_d_next(t, s.iter + 1)
    /\ UNCHANGED <<dist, cur, info, rs, procVars, mask, unitVars>>

\* est->log_likelihood as the gradient driver computes it
w_d_log_likelihood(m, x) ==
    IF has_log_likelihood(m) THEN log_likelihood(m, x) ELSE Log(p(m, x))

apop_maximum_likelihood_w_d_end ==
    /\ pc = "w_d_end"
    /\ \E o \in produce_covariance_matrix(
                [est EXCEPT
                    !.status = IF s.iter = MAX_ITERATIONS_w_d THEN 1 ELSE est.status,
                    !.parameters = s.x,
                    !.log_likelihood = w_d_log_likelihood(dist, s.x)], traj) :
        /\ ests' = SetEst(o.est)
        /\ traj' = o.traj
        /\ pc' = o.pc
    /\ data' \in ll_effect(s.x)
    /\ UNCHANGED <<dist, cur, info, s, shell, dshell, rs, procVars, mask, trace, unitVars>>

----------------------------------------------------------------------------
(* The annealing driver *)

\* annealing_energy: negshell at the state's beta
annealing_energy(m, i, beta) == negshell(m, i.use_constraint, beta)

\* an_record's call of the derivative provider: dnegshell(i->beta, i, grad)
an_record(m, want_cov, beta, ds) ==
    IF want_cov # 0 THEN dnegshell(m, beta) ELSE ds

\* the rest of annealing_energy with want_cov never looked at
annealing_energy_record_always(m, want_cov, energy, g_size, tj) ==
    record_gradient_info(energy, g_size, m, tj)

\* the rest of annealing_energy: if (p->want_cov) an_record(i, energy)
annealing_energy_record(m, want_cov, energy, g_size, tj) ==
    IF want_cov # 0 THEN record_gradient_info(energy, g_size, m, tj) ELSE tj

\* static const gsl_rng *r = NULL; if (mp && mp->rng) r = mp->rng; if (!r) r = gsl_rng_alloc(...)
\* with the supplied source never looked at
annealing_r_ignores_supplied(static, mp_rng) ==
    IF static # "NULL" THEN static ELSE "D"

\* static const gsl_rng *r = NULL; if (mp && mp->rng) r = mp->rng; if (!r) r = gsl_rng_alloc(...)
annealing_r(static, mp_rng) ==
    IF mp_rng # "NULL" THEN mp_rng
    ELSE IF static # "NULL" THEN static
    ELSE "D"

\* where source n stands
rng_state(g, n) == [seed |-> g.src[n].seed, pos |-> g.src[n].pos]

\* what one proposal reads off the source: where annealing_step leaves the
\* state before the constraint, and the outcome of the acceptance draw
Draws == [moved : {x \in Visited : ~PtNaN(x)}, accept : BOOLEAN]

\* the draws source n can give next
rng_next(g, n) ==
    LET sd == g.src[n].seed
        at == g.src[n].pos
    IN  IF at < Len(g.tape[sd]) THEN {g.tape[sd][at + 1]} ELSE Draws

\* source n has given d
rng_advance(g, n, d) ==
    LET sd == g.src[n].seed
        at == g.src[n].pos
    IN  [g EXCEPT
            !.src[n].pos = at + 1,
            !.tape[sd] = IF at < Len(g.tape[sd]) THEN g.tape[sd]
                         ELSE Append(g.tape[sd], d)]

\* the end of annealing_step: the proposal goes through the model's constraint
annealing_step_constraint(m, beta) ==
    IF has_constraint(m) /\ constraint_penalty(m, beta) # 0
    THEN constraint_corrected(m, beta)
    ELSE beta

\* parameter setup, then gsl_siman_solve's first evaluation E = Ef(x0_p)
apop_annealing_set ==
    /\ pc = "annealing"
    /\ LET beta == IF mp.starting_pt # NoPt THEN mp.starting_pt ELSE set_all(10)
           i == [info EXCEPT !.beta = beta, !.use_constraint = 0, !.minimizer = "siman"]
           ev == annealing_energy(dist, i, beta)
           src == annealing_r(static_r, mp.rng)
       IN  /\ info' = i
           /\ shell' = ev
           /\ dshell' = an_record(dist, mp.want_cov, beta, dshell)
           /\ static_r' = src
           /\ gsl_rng' = [gsl_rng EXCEPT !.src[src].made = TRUE]
           /\ s' = [NoS EXCEPT !.x = beta, !.start = beta, !.best = beta,
                               !.E = ev.out, !.best_E = ev.out, !.r = src,
                               !.r_at = rng_state(gsl_rng,
                                    IF mp.rng # "NULL" THEN mp.rng ELSE src)]
           /\ traj' = annealing_energy_record(dist, mp.want_cov, ev.out, betasize, traj)
           /\ trace' = negshell_trace(trace, beta, ev.out)
           /\ data' \in ll_effect(beta)
    /\ pc' \in first_eval_pc("siman")
    /\ UNCHANGED <<dist, ests, cur, rs, calls, mask, unitVars>>

\* one proposal of gsl_siman_solve: take_step, Ef, then the acceptance rule;
\* accept is the outcome of the Boltzmann draw, used when the move is not better
siman_try ==
    /\ pc = "siman"
    /\ s.iter < MaxTries
    /\ \E d \in rng_next(gsl_rng, s.r) :
        LET new_x == annealing_step_constraint(dist, d.moved)
            ev == annealing_energy(dist, info, new_x)
            new_E == ev.out
            better == DLt(new_E, s.E)
            take == better \/ d.accept
        IN  /\ gsl_rng' = rng_advance(gsl_rng, s.r, d)
            /\ shell' = ev
            /\ dshell' = an_record(dist, mp.want_cov, new_x, dshell)
            /\ s' = [s EXCEPT
                    !.iter = s.iter + 1,
                    !.best = IF DLe(new_E, s.best_E) THEN new_x ELSE s.best,
                    !.best_E = IF DLe(new_E, s.best_E) THEN new_E ELSE s.best_E,
                    !.x = IF take THEN new_x ELSE s.x,
                    !.E = IF take THEN new_E ELSE s.E]
            /\ traj' = annealing_energy_record(dist, mp.want_cov, new_E, betasize, traj)
            /\ trace' = negshell_trace(trace, new_x, new_E)
            /\ data' \in ll_effect(new_x)
    /\ UNCHANGED <<pc, dist, ests, cur, info, rs, static_r, calls, mask, unitVars>>

\* the schedule ends (the configurations here all carry the same schedule,
\* so the same number of proposals): copyfunc(best_x, x0_p)
siman_end ==
    /\ pc = "siman"
    /\ s.iter = MaxTries
    /\ info' = [info EXCEPT !.beta = s.best]
    /\ pc' = "annealing_end"
    /\ UNCHANGED <<dist, ests, cur, s, shell, dshell, rs, traj, procVars, ioVars, unitVars>>

\* i->params->log_likelihood as the annealing driver computes it
annealing_log_likelihood(m, x) ==
    IF has_log_likelihood(m) THEN log_likelihood(m, x) ELSE Log(p(m, x))

\* the estimate's fields written after gsl_siman_solve, and status with them
annealing_estimate_sets_status(e, m, beta) ==
    [e EXCEPT
        !.status = 0,
        !.parameters = beta,
        !.log_likelihood = annealing_log_likelihood(m, beta)]

\* the estimate's fields written after gsl_siman_solve: parameters and
\* log_likelihood
annealing_estimate(e, m, beta) ==
    [e EXCEPT
        !.parameters = beta,
        !.log_likelihood = annealing_log_likelihood(m, beta)]

\* a completed annealing solve: what it was given and what it returned
annealing_call(given, returned) ==
    [model |-> dist,
     rng |-> given.method_params.rng,
     config |-> [given.method_params EXCEPT !.rng = "NULL"],
     arg_status |-> info.arg_status,
     start |-> s.start,
     r |-> s.r,
     rng_at |-> s.r_at,
     parameters |-> returned.parameters,
     status |-> returned.status]

apop_annealing_end ==
    /\ pc = "annealing_end"
    /\ \E o \in produce_covariance_matrix(annealing_estimate(est, dist, info.beta), traj) :
        /\ ests' = SetEst(o.est)
        /\ traj' = o.traj
        /\ pc' = o.pc
        /\ calls' = IF o.pc = "returned"
                    THEN Append(calls, annealing_call(est, o.est))
                    ELSE calls
    /\ data' \in ll_effect(info.beta)
    /\ UNCHANGED <<dist, cur, info, s, shell, dshell, rs, static_r, gsl_rng, mask, trace, unitVars>>

----------------------------------------------------------------------------
(* The root finder (apop_findzeros.c): what it returns is not known here *)

find_roots ==
    /\ pc = "find_roots"
    /\ \E x \in Visited, st \in {0, 1}, nan \in BOOLEAN :
        ests' = SetEst([est EXCEPT
            !.parameters = x,
            !.status = st,
            !.log_likelihood = IF nan THEN NaN ELSE shell_f(dist, x)])
    /\ pc' = "returned"
    /\ UNCHANGED <<dist, cur, info, s, shell, dshell, rs, traj, procVars, ioVars, unitVars>>

----------------------------------------------------------------------------
(* One solve: the caller passes NULL, a struct that is not an MLE one, or  *)
(* an MLE configuration.                                                   *)

Methods == {-1, 0, 1, 2, 3, 4, 5, 10, 13, 14}

\* a process that made no annealing solve yet: the static r is NULL
InitProc ==
    /\ static_r = "NULL"
    /\ gsl_rng = NoRng
    /\ calls = <<>>

\* no dataset with missing cells, tracing off (mle_trace_path is "")
InitIo ==
    /\ data = NoData
    /\ mask = NoMask
    /\ trace = NoTrace

InitUnit ==
    /\ an = NoAn
    /\ codec = NoCodec
    /\ cov = NoCov

CallerParams ==
    {NoEst}
    \cup {[live |-> TRUE, method_name |-> "OLS", method_params |-> NoMP,
           model_params |-> "NULL", parameters |-> NoPt, covariance |-> "NULL",
           log_likelihood |-> 0, status |-> st] :
            st \in {0, 1}}
    \cup {[live |-> TRUE, method_name |-> "MLE",
           method_params |-> [starting_pt |-> sp, tolerance |-> 1, method |-> m,
                              step_size |-> 1000, want_cov |-> wc, rng |-> "NULL"],
           model_params |-> "NULL", parameters |-> NoPt, covariance |-> "NULL",
           log_likelihood |-> 0, status |-> st] :
            sp \in {NoPt, <<10, 10>>}, m \in Methods, wc \in {0, 1}, st \in {0, 1}}

Init ==
    /\ pc = "call"
    /\ dist \in Models
    /\ \E params \in CallerParams : ests = [k \in {"e", "copy"} |-> IF k = "e" THEN params ELSE NoEst]
    /\ cur = "e"
    /\ info = NoInfo
    /\ s = NoS
    /\ shell = NoShell
    /\ dshell = NoDShell
    /\ rs = NoRs
    /\ traj = NoTraj
    /\ InitProc
    /\ InitIo
    /\ InitUnit

Solve ==
    \/ apop_maximum_likelihood
    \/ apop_maximum_likelihood_no_d_set
    \/ no_d_iterate_fails
    \/ no_d_iterate
    \/ apop_maximum_likelihood_no_d_end
    \/ apop_maximum_likelihood_w_d_set
    \/ w_d_iterate_fails
    \/ w_d_iterate
    \/ apop_maximum_likelihood_w_d_end
    \/ apop_annealing_set
    \/ siman_try
    \/ siman_end
    \/ apop_annealing_end
    \/ find_roots

Next == Solve

Spec == Init /\ [][Next]_vars

\* the same, with the thread never stopping short of a return: a call the
\* program makes is one GSL or the model answers
SpecFair == Spec /\ WF_vars(Next)

----------------------------------------------------------------------------
(* apop_estimate_restart *)

\* apop_params_clone(e, sizeof(apop_mle_params), 0, 0): a struct of its own
\* holding a copy of e and of its method_params
apop_params_clone(e) == e

\* the scale argument is declared int: the double the caller writes (in
\* hundredths here) is converted on the call, truncating toward zero
int_scale(scale100) ==
    IF scale100 >= 0 THEN scale100 \div 100 ELSE 0 - ((0 - scale100) \div 100)

restart_starting_pt_unchecked(e) == e.parameters

restart_starting_pt(e) ==
    IF apop_vector_bounded(e.parameters, SanityBound)
    THEN e.parameters
    ELSE e.method_params.starting_pt

\* copy off the old params; modify the starting pt, method, and scale
restart_new_params(e, new_method, scale100) ==
    [apop_params_clone(e).method_params EXCEPT
        !.starting_pt = restart_starting_pt(e),
        !.tolerance = e.method_params.tolerance * int_scale(scale100),
        !.step_size = e.method_params.step_size * int_scale(scale100),
        !.method = new_method]

restart_pick_not_lower(e, copy) ==
    IF apop_vector_bounded(copy.parameters, SanityBound)
       /\ ~DLt(copy.log_likelihood, e.log_likelihood)
    THEN "copy"
    ELSE "e"

\* which of the two structs is returned
restart_pick(e, copy) ==
    IF apop_vector_bounded(copy.parameters, SanityBound)
       /\ DGt(copy.log_likelihood, e.log_likelihood)
    THEN "copy"
    ELSE "e"

NewMethods == {-1, 0, 2, 5, 10}
Scales == {1, 100, 200}

\* up to the call copy = e->model->estimate(e->data, copy)
apop_estimate_restart ==
    /\ pc = "restart"
    /\ \E new_method \in NewMethods, scale100 \in Scales :
        /\ ests' = [ests EXCEPT !["copy"] =
                [apop_params_clone(ests["e"]) EXCEPT
                    !.method_params = restart_new_params(ests["e"], new_method, scale100)]]
        /\ rs' = [active |-> TRUE, new_method |-> new_method, scale100 |-> scale100,
                  ret |-> "none", e0 |-> ests["e"]]
    /\ cur' = "copy"
    /\ pc' = "call"
    /\ UNCHANGED <<dist, info, s, shell, dshell, traj, procVars, ioVars, unitVars>>

\* after the estimate returned: neither struct is freed (both calls to
\* apop_params_free are commented out)
apop_estimate_restart_return ==
    /\ pc = "returned"
    /\ rs.active
    /\ rs' = [rs EXCEPT !.ret = restart_pick(ests["e"], ests["copy"])]
    /\ pc' = "done"
    /\ UNCHANGED <<dist, ests, cur, info, s, shell, dshell, traj, procVars, ioVars, unitVars>>

\* the log-likelihood the driver selected by method left in an estimate at x
driver_log_likelihood(method, m, x) ==
    IF select_driver(method) = "no_d" THEN no_d_log_likelihood(m, x)
    ELSE w_d_log_likelihood(m, x)

\* the output of a prior MLE estimation
PriorEstimates(m) ==
    {[live |-> TRUE, method_name |-> "MLE",
      method_params |-> [starting_pt |-> sp, tolerance |-> tol, method |-> meth,
                         step_size |-> 1000, want_cov |-> 1, rng |-> "NULL"],
      model_params |-> "NULL", parameters |-> x,
      covariance |-> IF meth = 0 THEN "NULL" ELSE "computed",
      log_likelihood |-> driver_log_likelihood(meth, m, x),
      status |-> st] :
        sp \in {NoPt, <<10, 10>>}, tol \in {1, 200}, meth \in {0, 1, 5},
        x \in {<<10, 1>>, <<0, 0>>, <<200000, 1>>, <<1, NaN>>}, st \in {0, 1}}

InitRestart ==
    /\ pc = "restart"
    /\ dist \in Models
    /\ \E e \in PriorEstimates(dist) :
        ests = [k \in {"e", "copy"} |-> IF k = "e" THEN e ELSE NoEst]
    /\ cur = "e"
    /\ info = NoInfo
    /\ s = NoS
    /\ shell = NoShell
    /\ dshell = NoDShell
    /\ rs = NoRs
    /\ traj = NoTraj
    /\ InitProc
    /\ InitIo
    /\ InitUnit

NextRestart ==
    \/ apop_estimate_restart
    \/ Solve
    \/ apop_estimate_restart_return

SpecRestart == InitRestart /\ [][NextRestart]_vars

----------------------------------------------------------------------------
(* A process that makes annealing solves one after the other, each with a  *)
(* configuration of its own that names a random source or none.            *)

MaxCalls == 2

RngCallerParams ==
    {[live |-> TRUE, method_name |-> "MLE",
      method_params |-> [starting_pt |-> NoPt, tolerance |-> 1, method |-> 5,
                         step_size |-> 1000, want_cov |-> 0, rng |-> g],
      model_params |-> "NULL", parameters |-> NoPt, covariance |-> "NULL",
      log_likelihood |-> 0, status |-> st] :
        g \in {"NULL", "A", "B"}, st \in {0, 1}}

\* the caller, back from a solve, sets up the next one
caller_calls_again ==
    /\ pc = "returned"
    /\ ~rs.active
    /\ Len(calls) < MaxCalls
    /\ \E params \in RngCallerParams : ests' = [ests EXCEPT !["e"] = params]
    /\ cur' = "e"
    /\ pc' = "call"
    /\ UNCHANGED <<dist, info, s, shell, dshell, rs, traj, procVars, ioVars, unitVars>>

InitRng ==
    /\ pc = "call"
    /\ dist \in {"norm", "cnorm"}
    /\ \E params \in RngCallerParams :
        ests = [k \in {"e", "copy"} |-> IF k = "e" THEN params ELSE NoEst]
    /\ cur = "e"
    /\ info = NoInfo
    /\ s = NoS
    /\ shell = NoShell
    /\ dshell = NoDShell
    /\ rs = NoRs
    /\ traj = NoTraj
    /\ InitProc
    /\ InitIo
    /\ InitUnit

NextRng ==
    \/ apop_maximum_likelihood
    \/ apop_annealing_set
    \/ siman_try
    \/ siman_end
    \/ apop_annealing_end
    \/ caller_calls_again

SpecRng == InitRng /\ [][NextRng]_vars

----------------------------------------------------------------------------
(* apop_ml_imputation *)

\* apop_params_alloc(data, model, method_params, model_params): a new
\* struct with the two pointers stored and no method name
apop_params_alloc(st, method_params, model_params) ==
    [live |-> TRUE, method_name |-> "", method_params |-> method_params,
     model_params |-> model_params, parameters |-> NoPt, covariance |-> "NULL",
     log_likelihood |-> 0, status |-> st]

\* mlp->method = 5; mlp->step_size = 2; mlp->tolerance = 0.2
imputation_mlp(m) ==
    [m EXCEPT !.method = 5, !.step_size = 2000, !.tolerance = 200]

\* Up to the call of apop_maximum_likelihood(d, *mc, p).  "e" is the
\* caller's struct (parameters), "copy" is p.  When the caller's struct is an
\* MLE one, mlp belongs to a third struct (mlp->ep) that nothing refers to
\* afterwards: the writes to mlp are lost with it.
apop_ml_imputation ==
    /\ pc = "impute"
    /\ mask' = find_missing(data.x)
    /\ \E st \in {0, 1} :
        LET parameters == ests["e"]
        IN  IF ~parameters.live \/ parameters.method_name # "MLE"
            THEN LET ep == apop_mle_params_alloc(st)
                 IN  ests' = [ests EXCEPT !["copy"] =
                        [ep EXCEPT !.method_params = imputation_mlp(ep.method_params),
                                   !.model_params = "mask"]]
            ELSE ests' = [ests EXCEPT
                        !["copy"] = apop_params_alloc(st, parameters.method_params,
                                                      parameters.model_params),
                        !["e"].model_params = "mask"]
    /\ cur' = "copy"
    /\ pc' = "call"
    /\ UNCHANGED <<dist, info, s, shell, dshell, rs, traj, procVars, data, trace, unitVars>>

\* datasets of two rows and two columns with one, two and three missing cells
Datasets ==
    {<< <<4, NaN>>, <<4, 4>> >>,
     << <<4, NaN>>, <<NaN, 4>> >>,
     << <<NaN, NaN>>, <<4, NaN>> >>}

ImputeCallerParams ==
    {NoEst}
    \cup {[live |-> TRUE, method_name |-> "OLS", method_params |-> NoMP,
           model_params |-> "caller", parameters |-> NoPt, covariance |-> "NULL",
           log_likelihood |-> 0, status |-> 0]}
    \cup {[live |-> TRUE, method_name |-> "MLE",
           method_params |-> [DefaultMP EXCEPT !.method = m],
           model_params |-> mo, parameters |-> NoPt, covariance |-> "NULL",
           log_likelihood |-> 0, status |-> 0] :
            m \in {1, 5}, mo \in {"NULL", "caller"}}

InitImpute ==
    /\ pc = "impute"
    /\ dist = "impute"
    /\ \E params \in ImputeCallerParams :
        ests = [k \in {"e", "copy"} |-> IF k = "e" THEN params ELSE NoEst]
    /\ cur = "e"
    /\ info = NoInfo
    /\ s = NoS
    /\ shell = NoShell
    /\ dshell = NoDShell
    /\ rs = NoRs
    /\ traj = NoTraj
    /\ InitProc
    /\ \E d \in Datasets : data = [x |-> d, d0 |-> d]
    /\ mask = NoMask
    /\ \E path \in {"", "mle_trace"} : trace = [NoTrace EXCEPT !.path = path]
    /\ InitUnit

NextImpute ==
    \/ apop_ml_imputation
    \/ apop_maximum_likelihood
    \/ apop_maximum_likelihood_w_d_set
    \/ w_d_iterate_fails
    \/ w_d_iterate
    \/ apop_maximum_likelihood_w_d_end
    \/ apop_annealing_set
    \/ siman_try
    \/ siman_end
    \/ apop_annealing_end

SpecImpute == InitImpute /\ [][NextImpute]_vars

----------------------------------------------------------------------------
(* The parameter codec, for parameters of every shape: a vector part and a *)
(* matrix part (a sequence of rows), either of which may be absent (<<>>). *)
(* One optimization run as the codec sees it: the driver reads the sizes   *)
(* and starts from a flat vector, negshell unpacks each point with the     *)
(* sizes it reads itself, the driver unpacks the last point on its way out. *)

CodecVals == {0, 1}
MaxLen == 2
MaxEvals == 2

RECURSIVE flatten(_)
\* the rows of a matrix one after the other
flatten(rows) == IF Len(rows) = 0 THEN <<>> ELSE rows[1] \o flatten(Tail(rows))

\* apop_data_pack(p): the vector, then the matrix row by row
apop_data_pack(q) == q.vector \o flatten(q.matrix)

\* apop_data_unpack(v, vsize, msize1, msize2)
apop_data_unpack(v, size, size1, size2) ==
    [vector |-> SubSeq(v, 1, size),
     matrix |-> [i \in 1..size1 |-> [j \in 1..size2 |-> v[size + (i - 1) * size2 + j]]]]

\* vsize = (p->vector ? p->vector->size : 0)
vsize(q) == IF q.vector # <<>> THEN Len(q.vector) ELSE 0
\* msize1 = (p->matrix ? p->matrix->size1 : 0)
msize1(q) == IF q.matrix # <<>> THEN Len(q.matrix) ELSE 0
\* msize2 read off size1: the slip that takes every matrix for a square one
msize2_is_size1(q) == IF q.matrix # <<>> THEN Len(q.matrix) ELSE 0
\* msize2 = (p->matrix ? p->matrix->size2 : 0)
msize2(q) == IF q.matrix # <<>> THEN Len(q.matrix[1]) ELSE 0

\* the parameters apop_params_alloc can have made
CodecParams ==
    {[vector |-> v, matrix |-> m] :
        v \in UNION {[1..n -> CodecVals] : n \in 0..MaxLen},
        m \in {<<>>} \cup UNION {[1..a -> [1..b -> CodecVals]] : a \in 1..MaxLen, b \in 1..MaxLen}}
    \ {[vector |-> <<>>, matrix |-> <<>>]}

\* the driver's head: betasize = vsize + msize1*msize2, then the starting point
codec_driver_set ==
    /\ codec.pc = "driver"
    /\ LET q == codec.parameters
           n == vsize(q) + msize1(q) * msize2(q)
       IN  \E x \in {apop_data_pack(q), [j \in 1..n |-> 1]} :
            codec' = [codec EXCEPT !.pc = "loop", !.betasize = n, !.x = x,
                        !.vsize = vsize(q), !.msize1 = msize1(q), !.msize2 = msize2(q)]
    /\ UNCHANGED <<pc, dist, ests, cur, info, s, shell, dshell, rs, traj, procVars, ioVars, an, cov>>

\* the minimizer moves x and negshell is called on it: beta = apop_data_unpack(betain, ...)
codec_negshell ==
    /\ codec.pc = "loop"
    /\ codec.evals < MaxEvals
    /\ LET q == codec.parameters
           n == Len(codec.x)
       IN  \E x \in {codec.x, [j \in 1..n |-> codec.x[n + 1 - j]], [j \in 1..n |-> 0]} :
            codec' = [codec EXCEPT
                        !.evals = codec.evals + 1,
                        !.x = x,
                        !.betain = x,
                        !.beta = apop_data_unpack(x, vsize(q), msize1(q), msize2(q))]
    /\ UNCHANGED <<pc, dist, ests, cur, info, s, shell, dshell, rs, traj, procVars, ioVars, an, cov>>

\* est->parameters = apop_data_unpack(s->x, vsize, msize1, msize2)
codec_driver_end ==
    /\ codec.pc = "loop"
    /\ codec' = [codec EXCEPT
                    !.pc = "done",
                    !.parameters = apop_data_unpack(codec.x, codec.vsize,
                                                    codec.msize1, codec.msize2)]
    /\ UNCHANGED <<pc, dist, ests, cur, info, s, shell, dshell, rs, traj, procVars, ioVars, an, cov>>

InitCodec ==
    /\ pc = "codec"
    /\ dist \in Models
    /\ ests = [k \in {"e", "copy"} |-> NoEst]
    /\ cur = "e"
    /\ info = NoInfo
    /\ s = NoS
    /\ shell = NoShell
    /\ dshell = NoDShell
    /\ rs = NoRs
    /\ traj = NoTraj
    /\ InitProc
    /\ InitIo
    /\ an = NoAn
    /\ cov = NoCov
    /\ \E q \in CodecParams :
        codec = [pc |-> "driver", p0 |-> q, parameters |-> q, betasize |-> 0,
                 vsize |-> 0, msize1 |-> 0, msize2 |-> 0,
                 x |-> <<>>, betain |-> <<>>, beta |-> q, evals |-> 0]

NextCodec ==
    \/ codec_driver_set
    \/ codec_negshell
    \/ codec_driver_end

SpecCodec == InitCodec /\ [][NextCodec]_vars

----------------------------------------------------------------------------
(* annealing_step, one call, draw by draw.  The state's beta is in tenths  *)
(* like every parameter; the step size handed over by gsl_siman_solve is   *)
(* the configuration's, in thousandths.  A draw of gsl_rng_uniform is a    *)
(* number of tenths in [0, 1).                                             *)

Amts == {0, 5, 9}
\* the bound on the passes of the dimension-picking loop followed here
MaxDraws == 6
StepSizes == {100000}

\* a step size in the unit of the parameters
step_tenths(step_size) == step_size \div 100

\* apop_vector_increment(v, i, amt)
apop_vector_increment(v, i, amt) == [v EXCEPT ![i] = v[i] + amt]

\* step_left *= amt
step_left_next(step_left, amt) == (amt * step_left) \div 10

\* while (dims_used[dim]), with the mark never looked at
dim_never_rejected(dims_used, dim) == FALSE

\* while (dims_used[dim]): the draw is made again
dim_rejected(dims_used, dim) == dims_used[dim] # 0

\* the passes of the picking loop are counted up to MaxDraws
draws_next(draws) == IF draws < MaxDraws THEN draws + 1 ELSE draws

\* memset(dims_used, 0, ...); dims_left = i->beta->size; step_left = step_size
\* (shifted counts the calls of apop_vector_increment on each coordinate)
annealing_step_enter ==
    /\ an.pc = "call"
    /\ an' = [an EXCEPT
            !.pc = "pick",
            !.dims_used = [j \in 1..Len(an.beta) |-> 0],
            !.shifted = [j \in 1..Len(an.beta) |-> 0],
            !.dims_left = Len(an.beta),
            !.step_left = step_tenths(an.step_size)]
    /\ UNCHANGED <<pc, dist, ests, cur, info, s, shell, dshell, rs, traj, procVars, ioVars, codec, cov>>

\* one pass of do { dim = gsl_rng_uniform(r) * size } while (dims_used[dim])
\* with dim the dimension drawn (gsl_rng_uniform is in [0, 1))
annealing_step_pick_dim(dim) ==
    /\ an.pc = "pick"
    /\ an.dims_left # 0
    /\ dim \in 1..Len(an.beta)
    /\ an' = IF dim_rejected(an.dims_used, dim)
             THEN [an EXCEPT !.draws = draws_next(an.draws)]
             ELSE [an EXCEPT !.pc = "shift", !.dim = dim, !.draws = draws_next(an.draws)]
    /\ UNCHANGED <<pc, dist, ests, cur, info, s, shell, dshell, rs, traj, procVars, ioVars, codec, cov>>

annealing_step_pick ==
    \E dim \in 1..Len(an.beta) : annealing_step_pick_dim(dim)

\* the rest of the while body: mark the dimension, draw sign and amt, shift
annealing_step_shift ==
    /\ an.pc = "shift"
    /\ \E sign \in {1, -1}, amt \in Amts :
        an' = [an EXCEPT
            !.pc = "pick",
            !.dims_used[an.dim] = an.dims_used[an.dim] + 1,
            !.dims_left = an.dims_left - 1,
            !.shifted[an.dim] = an.shifted[an.dim] + 1,
            !.beta = apop_vector_increment(an.beta, an.dim,
                        ((amt * an.step_left) \div 10) * sign),
            !.step_left = step_left_next(an.step_left, amt)]
    /\ UNCHANGED <<pc, dist, ests, cur, info, s, shell, dshell, rs, traj, procVars, ioVars, codec, cov>>

\* after the loop: the constraint, and its corrected point if it binds
annealing_step_constrain ==
    /\ an.pc = "pick"
    /\ an.dims_left = 0
    /\ an' = [an EXCEPT
            !.pc = "done",
            !.moved = an.beta,
            !.beta = annealing_step_constraint(dist, an.beta)]
    /\ UNCHANGED <<pc, dist, ests, cur, info, s, shell, dshell, rs, traj, procVars, ioVars, codec, cov>>

StepStarts == {<<10, 10>>, <<0, 0>>}

InitStep ==
    /\ pc = "annealing_step"
    /\ dist \in Models
    /\ ests = [k \in {"e", "copy"} |-> NoEst]
    /\ cur = "e"
    /\ info = NoInfo
    /\ s = NoS
    /\ shell = NoShell
    /\ dshell = NoDShell
    /\ rs = NoRs
    /\ traj = NoTraj
    /\ InitProc
    /\ InitIo
    /\ codec = NoCodec
    /\ cov = NoCov
    /\ \E beta \in StepStarts, step_size \in StepSizes :
        an = [pc |-> "call", beta |-> beta, old |-> beta, moved |-> beta,
              step_size |-> step_size, dims_used |-> <<>>, shifted |-> <<>>, dims_left |-> 0,
              step_left |-> 0, dim |-> 0, draws |-> 0]

NextStep ==
    \/ annealing_step_enter
    \/ annealing_step_pick
    \/ annealing_step_shift
    \/ annealing_step_constrain

SpecStep == InitStep /\ [][NextStep]_vars

\* the number of coordinates of the states in StepStarts
StepDims == 2

\* the same under a fair random source: a dimension that stays to be drawn
\* is drawn, and the thread takes its next step
SpecStepFair ==
    /\ SpecStep
    /\ WF_vars(annealing_step_enter)
    /\ WF_vars(annealing_step_shift)
    /\ WF_vars(annealing_step_constrain)
    /\ \A dim \in 1..StepDims : WF_vars(annealing_step_pick_dim(dim))

----------------------------------------------------------------------------
(* The weights of produce_covariance_matrix, pass by pass of its double    *)
(* loop.  The objective values of the Trajectory are logarithms in base 2  *)
(* (see Log), so exp is 2^; a denominator is a number of 2^-ExpScale, or   *)
(* the double MemsetOnes.                                                  *)

\* the objective values a Trajectory holds here, and how many
CovVals == {0, 1, 2}
MaxEntries == 3

\* denominators are counted in units of 2^-ExpScale: 1.0 is Unit
ExpScale == 2
Unit == 2^ExpScale

\* the double whose eight bytes are all 0x01, about 7.7e-304
MemsetOnes == 7777777

\* what memset(proportion, c, sizeof(double) * n) leaves in each double
memset_double(c) == IF c = 0 THEN 0 ELSE MemsetOnes

\* exp(a - b)
exp_diff(a, b) == 2^(ExpScale + a - b)

\* proportion[j] += e, e at least 2^-ExpScale: next to it MemsetOnes is lost
\* in the rounding
proportion_add(x, e) == IF x = MemsetOnes THEN e ELSE x + e

\* double proportion[*i->gpsize]; memset(proportion, 1, sizeof(double) * *i->gpsize)
produce_covariance_memset ==
    /\ cov.pc = "call"
    /\ cov' = [cov EXCEPT
            !.pc = "loop",
            !.proportion = [m \in 1..Len(cov.gradientp) |-> memset_double(1)],
            !.j = 1, !.k = 1]
    /\ UNCHANGED <<pc, dist, ests, cur, info, s, shell, dshell, rs, traj, procVars, ioVars, an, codec>>

\* one pass of the inner loop: if (j != k) proportion[j] += exp(gradientp[k] - gradientp[j])
produce_covariance_add ==
    /\ cov.pc = "loop"
    /\ cov.j <= Len(cov.gradientp)
    /\ LET j == cov.j
           k == cov.k
           last == k = Len(cov.gradientp)
       IN  cov' = [cov EXCEPT
                !.proportion[j] =
                    IF j # k
                    THEN proportion_add(cov.proportion[j],
                            exp_diff(cov.gradientp[k], cov.gradientp[j]))
                    ELSE cov.proportion[j],
                !.k = IF last THEN 1 ELSE k + 1,
                !.j = IF last THEN j + 1 ELSE j]
    /\ UNCHANGED <<pc, dist, ests, cur, info, s, shell, dshell, rs, traj, procVars, ioVars, an, codec>>

\* the double loop is over: proportion[m] is the denominator of entry m's weight
produce_covariance_weights ==
    /\ cov.pc = "loop"
    /\ cov.j > Len(cov.gradientp)
    /\ cov' = [cov EXCEPT !.pc = "done"]
    /\ UNCHANGED <<pc, dist, ests, cur, info, s, shell, dshell, rs, traj, procVars, ioVars, an, codec>>

InitCov ==
    /\ pc = "produce_covariance_matrix"
    /\ dist \in Models
    /\ ests = [k \in {"e", "copy"} |-> NoEst]
    /\ cur = "e"
    /\ info = NoInfo
    /\ s = NoS
    /\ shell = NoShell
    /\ dshell = NoDShell
    /\ rs = NoRs
    /\ traj = NoTraj
    /\ InitProc
    /\ InitIo
    /\ an = NoAn
    /\ codec = NoCodec
    /\ \E n \in 1..MaxEntries : \E gp \in [1..n -> CovVals] :
        cov = [pc |-> "call", gradientp |-> gp, proportion |-> <<>>, j |-> 0, k |-> 0]

NextCov ==
    \/ produce_covariance_memset
    \/ produce_covariance_add
    \/ produce_covariance_weights

SpecCov == InitCov /\ [][NextCov]_vars

----------------------------------------------------------------------------
(* The claims *)

\* C1: every evaluation negshell makes: with a constraint in the model and
\* checking enabled, a penalty > 0 gives -likelihood(corrected) + penalty and
\* a penalty of 0 gives -likelihood(original); without a constraint, or with
\* checking disabled, the constraint is not evaluated and the result is
\* -likelihood(original).
C1_negshell_result ==
    shell.called =>
        LET b == shell.betain
            pen == constraint_penalty(dist, b)
        IN  IF has_constraint(dist) /\ shell.use_constraint # 0
            THEN /\ shell.constraint_called
                 /\ pen > 0 =>
                        shell.out = DAdd(DNeg(shell_f(dist, constraint_corrected(dist, b))), pen)
                 /\ pen = 0 => shell.out = DNeg(shell_f(dist, b))
            ELSE /\ ~shell.constraint_called
                 /\ shell.out = DNeg(shell_f(dist, b))

\* C1 witness: a driver evaluated negshell at an infeasible point with
\* checking enabled, and the penalty was added to the corrected point's value.
C1_witness ==
    /\ shell.called
    /\ shell.constraint_called
    /\ shell.betain = <<10, 10>>
    /\ shell.penalty = 9
    /\ shell.out = 27

IsBounded(v) ==
    \A j \in 1..Len(v) : v[j] \notin {NaN, PosInf, NegInf} /\ Abs(v[j]) <= 100000

\* C2: apop_estimate_restart returns the new estimate exactly when its
\* parameters are bounded by 1e4 and its log-likelihood is strictly greater
\* than the original's, the original otherwise; the returned log-likelihood is
\* never below the original's.
C2_restart_returns_better ==
    pc = "done" =>
        LET old == ests["e"]
            new == ests["copy"]
            better == /\ new.log_likelihood # NaN
                      /\ old.log_likelihood # NaN
                      /\ new.log_likelihood > old.log_likelihood
        IN  /\ rs.ret = (IF IsBounded(new.parameters) /\ better THEN "copy" ELSE "e")
            /\ old = rs.e0
            /\ ~DLt(ests[rs.ret].log_likelihood, rs.e0.log_likelihood)

\* C2 witness: the restart returned a new estimate that is bounded and better.
C2_witness ==
    /\ pc = "done"
    /\ rs.ret = "copy"
    /\ ests["copy"].log_likelihood = 0
    /\ ests["e"].log_likelihood = -11

\* C3: the new configuration has tolerance = old tolerance x scale and step
\* size = old step size x scale for the scale the caller wrote, fractional
\* ones included, and method = new_method.
C3_restart_scales ==
    rs.active =>
        /\ ests["copy"].method_params.tolerance * 100
                = rs.e0.method_params.tolerance * rs.scale100
        /\ ests["copy"].method_params.step_size * 100
                = rs.e0.method_params.step_size * rs.scale100
        /\ ests["copy"].method_params.method = rs.new_method

\* C4: with new_method = -1 the restart runs the method of the prior estimate.
C4_restart_keeps_method ==
    (rs.active /\ rs.new_method = -1) =>
        /\ ests["copy"].method_params.method = rs.e0.method_params.method
        /\ info.driver # "none" => info.driver = select_driver(rs.e0.method_params.method)

\* the driver's starting point when the configuration names none
DefaultStart(driver) ==
    IF driver = "no_d" THEN <<0, 0>>
    ELSE IF driver = "w_d" THEN <<1, 1>>
    ELSE <<10, 10>>

\* C5: the restart's run starts from the previous estimate's parameters when
\* they are bounded by 1e4, and otherwise from the previous configuration's
\* starting point (the driver's default when it names none); the original
\* estimate and its configuration are not modified.
C5_restart_start ==
    rs.active =>
        /\ ests["e"] = rs.e0
        /\ s.start # NoPt =>
            s.start = (IF IsBounded(rs.e0.parameters) THEN rs.e0.parameters
                       ELSE IF rs.e0.method_params.starting_pt # NoPt
                            THEN rs.e0.method_params.starting_pt
                       ELSE DefaultStart(info.driver))

\* C5 witness: the previous parameters were unbounded and the run started
\* from the previous configuration's starting point.
C5_witness ==
    /\ rs.active
    /\ rs.e0.parameters = <<200000, 1>>
    /\ rs.e0.method_params.starting_pt = <<10, 10>>
    /\ s.start = <<10, 10>>
    /\ s.iter = 1

\* C6: after apop_estimate_restart returns, exactly one of the two estimates is
\* live: the returned one, the other one freed.
C6_restart_frees_loser ==
    pc = "done" =>
        /\ ests[rs.ret].live
        /\ ests["e"].live # ests["copy"].live

\* C7: the gradient driver returns status 0 exactly when the gradient test
\* succeeded, and a non-zero status when the step failed or the iteration cap
\* ended the loop, whatever the status on entry.
C7_w_d_status ==
    (pc = "returned" /\ info.driver = "w_d") =>
        /\ est.status = 0 <=> s.test = "success"
        /\ (s.step = "failed" \/ (s.iter = MAX_ITERATIONS_w_d /\ s.test = "continue"))
                => est.status # 0

\* C8: the simplex driver returns status 0 exactly when the size test
\* succeeded on the last iteration performed, and 1 when the step failed or
\* the cap was reached without it; the parameters are the minimizer's point.
C8_no_d_status ==
    (pc = "returned" /\ info.driver = "no_d") =>
        /\ est.status = 0 <=> s.test = "success"
        /\ (s.step = "failed" \/ (s.iter = MAX_ITERATIONS /\ s.test = "continue"))
                => est.status = 1
        /\ est.parameters = s.x

\* C8 witness: the simplex step failed on a later iteration, on a struct that
\* came in with status 0, and status 1 was returned.
C8_witness ==
    /\ pc = "returned"
    /\ info.driver = "no_d"
    /\ info.arg_status = 0
    /\ s.step = "failed"
    /\ s.iter > 1
    /\ est.status = 1

ExpectedDriver(method) ==
    CASE method = 0 -> "no_d"
      [] method = 5 -> "annealing"
      [] method \in 10..13 -> "find_roots"
      [] OTHER -> "w_d"

ExpectedMinimizer(method) ==
    CASE method = 0 -> "nmsimplex"
      [] method = 5 -> "siman"
      [] method \in 10..13 -> "none"
      [] method = 2 -> "vector_bfgs"
      [] method = 3 -> "conjugate_pr"
      [] OTHER -> "conjugate_fr"

\* C9: the driver follows from the method selector alone (0 simplex, 5
\* annealing, 10..13 root finder, anything else the gradient driver with BFGS
\* for 2, Polak-Ribiere for 3, Fletcher-Reeves otherwise); without an MLE
\* configuration the defaults are installed and Fletcher-Reeves runs.
C9_driver_selection ==
    info.driver # "none" =>
        IF info.arg_kind = "MLE"
        THEN /\ info.driver = ExpectedDriver(info.arg_method)
             /\ info.minimizer \in {"none", ExpectedMinimizer(info.arg_method)}
        ELSE /\ est.method_name = "MLE"
             /\ est.method_params.method = 1
             /\ est.method_params.starting_pt = NoPt
             /\ est.method_params.step_size = 1000
             /\ info.driver = "w_d"
             /\ info.minimizer \in {"none", "conjugate_fr"}

\* C9 witness: the caller passed no params and the Fletcher-Reeves gradient
\* driver ran to its end.
C9_witness ==
    /\ pc = "returned"
    /\ info.arg_kind = "NULL"
    /\ info.driver = "w_d"
    /\ info.minimizer = "conjugate_fr"

\* C10: whichever of the three drivers ran, the estimate's log_likelihood is
\* the model's log-likelihood at the returned parameters, log p for a model
\* that supplies only p.
C10_reported_log_likelihood ==
    (pc = "returned" /\ info.driver \in {"no_d", "w_d", "annealing"}) =>
        est.log_likelihood =
            (IF has_log_likelihood(dist) THEN log_likelihood(dist, est.parameters)
             ELSE Log(p(dist, est.parameters)))

\* C11: with want_cov set, each of the three drivers (simplex, gradient,
\* annealing) hands its Trajectory to produce_covariance_matrix on completion:
\* the estimate returned carries the covariance computed from it.
C11_covariance_from_trajectory ==
    (pc = "returned" /\ info.driver \in {"no_d", "w_d", "annealing"}
        /\ mp.want_cov # 0) =>
            est.covariance = "computed"

\* C12: the Trajectory buffers allocated at the head of
\* apop_maximum_likelihood are released exactly once before the call returns,
\* whichever driver ran and whether or not a covariance was requested.
C12_buffers_released_once ==
    /\ traj.frees <= 1
    /\ (pc = "returned" /\ info.driver # "none") =>
            (traj.frees = 1 /\ ~traj.allocated)

RECURSIVE grid_distance(_, _)
\* apop_vector_grid_distance: the Manhattan metric
grid_distance(a, b) ==
    IF Len(a) = 0 THEN 0
    ELSE Abs(a[1] - b[1]) + grid_distance(Tail(a), Tail(b))

\* C13: annealing_step, whatever the draws: when the constraint does not
\* bind, the sum over the coordinates of |new - old| is at most step_size.
C13_step_within_step_size ==
    (an.pc = "done" /\ an.beta = an.moved) =>
        grid_distance(an.beta, an.old) <= step_tenths(an.step_size)

\* C14: a model whose constraint's corrected point is always feasible and
\* whose unconstrained optimum is infeasible: the parameters of the estimate
\* returned lie in the feasible region, for each of the three drivers run
\* from its default starting point.
C14_returned_parameters_feasible ==
    (pc = "returned" /\ has_constraint(dist)
        /\ info.driver \in {"no_d", "w_d", "annealing"}
        /\ mp.starting_pt = NoPt) =>
            constraint_penalty(dist, est.parameters) = 0

\* C15: over the annealing solves of one process, a call that supplies a
\* random source uses it, and a call that supplies none uses the default
\* source the first such call created, whatever was supplied in between.
C15_random_source ==
    \A k \in 1..Len(calls) :
        calls[k].r = (IF calls[k].rng # "NULL" THEN calls[k].rng ELSE "D")

C17_imputation_solve ==
    (dist = "impute" /\ info.driver # "none") =>
        /\ mp.method = 5
        /\ info.driver = "annealing"
        /\ est.model_params = "mask"

\* the place of cell (i, j) among the missing cells of d taken row by row
MissingRank(d, i, j) ==
    Cardinality({c \in (0..i) \X (0..(Len(d[1]) - 1)) :
        /\ apop_data_get(d, c[1], c[2]) = NaN
        /\ (c[1] < i \/ c[2] <= j)})

\* C18: apop_ml_imputation: the parameter vector has one component for each
\* NaN cell of the dataset, in row-then-column order; on return every missing
\* cell holds its component of the returned parameters and every other cell
\* is as it was.
C18_imputation_fills_missing ==
    (dist = "impute" /\ pc = "returned") =>
        /\ Len(est.parameters) =
                Cardinality({c \in (0..(Len(data.d0) - 1)) \X (0..(Len(data.d0[1]) - 1)) :
                                apop_data_get(data.d0, c[1], c[2]) = NaN})
        /\ \A i \in 0..(Len(data.d0) - 1), j \in 0..(Len(data.d0[1]) - 1) :
                apop_data_get(data.x, i, j) =
                    (IF apop_data_get(data.d0, i, j) = NaN
                     THEN est.parameters[MissingRank(data.d0, i, j)]
                     ELSE apop_data_get(data.d0, i, j))

\* C19: pack is the vector part followed by the matrix part row by row;
\* unpack(pack(p), fixed_len, rows, cols) is p for every shape, one with an
\* absent part included; and the flat length fixed_len + rows*cols that
\* negshell and the driver work with is the same all through one run.
C19_codec_round_trip ==
    codec.pc # "none" =>
        LET q0 == codec.p0
            n0 == Len(q0.vector) + SumSeq([a \in 1..Len(q0.matrix) |-> Len(q0.matrix[a])])
        IN  /\ apop_data_pack(q0) = q0.vector \o flatten(q0.matrix)
            /\ apop_data_unpack(apop_data_pack(q0), vsize(q0), msize1(q0), msize2(q0)) = q0
            /\ codec.pc \in {"loop", "done"} =>
                    /\ codec.betasize = n0
                    /\ Len(codec.x) = n0
            /\ codec.evals > 0 =>
                    /\ Len(codec.betain) = n0
                    /\ apop_data_pack(codec.beta) = codec.betain
                    /\ Len(codec.beta.vector) = Len(q0.vector)
                    /\ Len(codec.beta.matrix) = Len(q0.matrix)
            /\ codec.pc = "done" =>
                    /\ apop_data_pack(codec.parameters) = codec.x
                    /\ vsize(codec.parameters) = vsize(q0)
                    /\ msize1(codec.parameters) = msize1(q0)
                    /\ msize2(codec.parameters) = msize2(q0)

\* C19 witness: parameters with a two-entry vector and a 1 x 2 matrix went
\* through two evaluations and came back from the last point.
C19_witness ==
    /\ codec.pc = "done"
    /\ codec.evals = 2
    /\ Len(codec.p0.vector) = 2
    /\ Len(codec.p0.matrix) = 1
    /\ codec.x = <<0, 1, 1, 0>>
    /\ codec.parameters = [vector |-> <<0, 1>>, matrix |-> << <<1, 0>> >>]

\* C20: with a trace name set, every evaluation of the objective appends one
\* row: the coordinates of the flat vector negshell was given, one column
\* each whatever their number, then the negation of the value it returned;
\* with no trace name nothing is appended.
C20_trace_rows ==
    IF trace.path = "" THEN trace.rows = <<>>
    ELSE /\ Len(trace.rows) = trace.evals
         /\ shell.called =>
                trace.rows[Len(trace.rows)] = shell.betain \o <<DNeg(shell.out)>>

\* the point negshell's evaluation sh took the likelihood at
negshell_evaluated_at(m, sh) ==
    IF sh.constraint_called /\ sh.penalty > 0
    THEN constraint_corrected(m, sh.betain)
    ELSE sh.betain

\* C21: whenever the derivative provider has been called on the flat vector
\* the objective adapter was last called on, the point it takes the score (or
\* the numerical gradient) at is the point negshell evaluated the likelihood
\* at, whatever use_constraint is.
C21_dnegshell_same_point ==
    (dshell.called /\ shell.called /\ dshell.betain = shell.betain) =>
        dshell.useme = negshell_evaluated_at(dist, shell)

\* C22: the two iteration loops end.  A loop that is running has made fewer
\* steps than its cap; when it is left it has made at least one step and at
\* most the cap, and fewer than the cap only after a step that failed or a
\* convergence test that said success; and a loop that runs is left.
C22_loops_terminate ==
    /\ [](pc = "w_d_loop" => s.iter < MAX_ITERATIONS_w_d)
    /\ [](pc = "no_d_loop" => s.iter < MAX_ITERATIONS)
    /\ [](pc = "w_d_end" =>
            /\ 1 <= s.iter /\ s.iter <= MAX_ITERATIONS_w_d
            /\ s.iter < MAX_ITERATIONS_w_d => (s.step = "failed" \/ s.test = "success"))
    /\ [](pc = "no_d_end" =>
            /\ 1 <= s.iter /\ s.iter <= MAX_ITERATIONS
            /\ s.iter < MAX_ITERATIONS => (s.step = "failed" \/ s.test = "success"))
    /\ (pc = "w_d_loop") ~> (pc = "w_d_end")
    /\ (pc = "no_d_loop") ~> (pc = "no_d_end")

\* C22 witness: the gradient driver's loop was stopped by the cap, its last
\* test still saying continue
C22_witness ==
    /\ pc = "w_d_end"
    /\ s.iter = MAX_ITERATIONS_w_d
    /\ s.step = "ok"
    /\ s.test = "continue"

\* C23: in one call of annealing_step no coordinate is shifted twice, the
\* coordinates still to shift are dims_left many, once the loop is left every
\* coordinate has been shifted exactly once and dims_left is 0; and under a
\* fair random source the loop is left.
C23_every_coordinate_once ==
    /\ [](an.pc \in {"pick", "shift", "done"} =>
            /\ \A j \in 1..Len(an.beta) :
                    an.shifted[j] <= 1 /\ an.shifted[j] = an.dims_used[j]
            /\ an.dims_left = Cardinality({j \in 1..Len(an.beta) : an.shifted[j] = 0}))
    /\ [](an.pc = "done" =>
            /\ \A j \in 1..Len(an.beta) : an.shifted[j] = 1
            /\ an.dims_left = 0)
    /\ (an.pc \in {"call", "pick", "shift"}) ~> (an.pc = "done" /\ an.dims_left = 0)

\* C23 witness: a call that drew a used dimension again on its way, and
\* shifted the second coordinate before the first
C23_witness ==
    /\ an.pc = "done"
    /\ an.draws > Len(an.beta)
    /\ an.dim = 1
    /\ an.beta # an.old

\* C24: in the annealing driver, with covariance requested every objective
\* evaluation whose energy is finite appends exactly one entry to the
\* Trajectory (one objective value, one score vector of betasize coordinates,
\* the entries already there kept), whether the proposal is then accepted or
\* rejected; with covariance not requested the Trajectory stays empty.
C24_annealing_records_every_evaluation ==
    /\ [][(info'.driver = "annealing" /\ trace'.evals = trace.evals + 1) =>
            IF mp.want_cov # 0
            THEN gsl_finite(shell'.out) =>
                    /\ traj'.gpsize = traj.gpsize + 1
                    /\ traj'.gsize = traj.gsize + betasize
                    /\ Len(traj'.gradientp) = Len(traj.gradientp) + 1
                    /\ SubSeq(traj'.gradientp, 1, Len(traj.gradientp)) = traj.gradientp
            ELSE traj' = traj]_vars
    /\ []((info.driver = "annealing" /\ mp.want_cov = 0) =>
            traj.gpsize = 0 /\ traj.gsize = 0 /\ traj.gradientp = <<>>)

\* C24 witness: covariance requested, the start and MaxTries proposals were
\* evaluated, the walk is still at its start (the proposals were rejected),
\* and the Trajectory holds an entry for each evaluation
C24_witness ==
    /\ info.driver = "annealing"
    /\ pc = "siman"
    /\ mp.want_cov = 1
    /\ s.iter = MaxTries
    /\ s.x = s.start
    /\ shell.betain # s.x
    /\ trace.evals = MaxTries + 1
    /\ traj.gpsize = MaxTries + 1

RECURSIVE sum_exp(_, _, _)
\* the sum the claim adds to 1 in the denominator of entry j
sum_exp(gp, j, k) ==
    IF k = 0 THEN 0
    ELSE sum_exp(gp, j, k - 1) + (IF k # j THEN exp_diff(gp[k], gp[j]) ELSE 0)

\* C25: once the double loop is over, the denominator of every entry j is 1
\* plus the sum over k # j of exp(p_k - p_j); so a Trajectory of one entry has
\* the denominator 1, that is the weight 1.
C25_weight_denominators ==
    cov.pc = "done" =>
        /\ \A j \in 1..Len(cov.gradientp) :
                cov.proportion[j] = Unit + sum_exp(cov.gradientp, j, Len(cov.gradientp))
        /\ Len(cov.gradientp) = 1 => cov.proportion[1] = Unit

\* the Trajectory holds whole entries: betasize score coordinates for each
\* objective value
C26_whole_entries ==
    traj.allocated =>
        traj.gsize = betasize * traj.gpsize /\ Len(traj.gradientp) = traj.gpsize

\* between its allocation and its release the Trajectory only grows at its end
C26_append_only ==
    [][(traj.allocated /\ traj'.allocated /\ pc # "call") =>
            /\ Len(traj'.gradientp) >= Len(traj.gradientp)
            /\ SubSeq(traj'.gradientp, 1, Len(traj.gradientp)) = traj.gradientp
            /\ traj'.gsize >= traj.gsize]_vars

\* every objective value stored is finite
C26_entries_finite ==
    traj.allocated => \A k \in 1..Len(traj.gradientp) : gsl_finite(traj.gradientp[k])

\* C26: within one solve the Trajectory is only appended to, it holds
\* betasize score coordinates for each objective value (gsize = dim * gpsize),
\* and no objective value in it is non-finite.
C26_trajectory_well_formed ==
    /\ C26_append_only
    /\ [](C26_whole_entries)
    /\ [](C26_entries_finite)

\* C27: when a driver is about to call produce_covariance_matrix with
\* covariance requested, the Trajectory holds at least one entry, so that
\* betasize = gsize / gpsize divides by a positive number and no run is
\* killed by the division.
C27_trajectory_not_empty ==
    /\ (pc \in {"w_d_end", "annealing_end"} /\ mp.want_cov # 0) => traj.gpsize >= 1
    /\ pc # "SIGFPE"

====
